---- MODULE Spec2Model ----
(***************************************************************************)
(* A model of the Aristochart v2 runtime core (src/Aristochart.v2.js): the *)
(* frame engine, the primitive registry, the per-primitive animation       *)
(* buffer, the pointer hover/click dispatcher and the definition and       *)
(* construction of primitive kinds.                                        *)
(*                                                                         *)
(* Numbers are exact rationals <<n, d>> (d > 0, lowest terms); the source  *)
(* computes in IEEE doubles, so the model is the real-number reading of    *)
(* the arithmetic.  An exception thrown by the source is modelled by the   *)
(* field "threw" of the heap record an operation returns: the operation    *)
(* stops where the source stops and keeps the assignments made so far.     *)
(***************************************************************************)
EXTENDS Integers, Sequences, FiniteSets, TLC

(* ------------------------------ bounds -------------------------------- *)

MaxReg == 3
MaxTasks == 2
MaxPending == 2
MaxFrames == 2
MaxFired == 2
MaxHover == 3
MaxOvershoot == 2

(* -------------------------- program constants ------------------------- *)

DEBUG == TRUE
Side == 10
InitialMouse == -1
HoverShift == 30
HoverFrames == 40
FramesPerSecond == 60
Shift == 40

(* ------------------------------ rationals ----------------------------- *)

Abs(n) == IF n < 0 THEN -n ELSE n

RECURSIVE GCD(_, _)
GCD(a, b) == IF b = 0 THEN a ELSE GCD(b, a % b)

Norm(n, d) ==
    LET g == GCD(Abs(n), Abs(d))
        s == IF d < 0 THEN -1 ELSE 1
    IN  <<(s * n) \div g, (s * d) \div g>>

R(n) == <<n, 1>>

\* sums, products and comparisons go through the common factors of the
\* denominators, which keeps the intermediate integers small
RAdd(a, b) ==
    LET g == GCD(a[2], b[2])
    IN  Norm(a[1] * (b[2] \div g) + b[1] * (a[2] \div g), (a[2] \div g) * b[2])
RSub(a, b) ==
    LET g == GCD(a[2], b[2])
    IN  Norm(a[1] * (b[2] \div g) - b[1] * (a[2] \div g), (a[2] \div g) * b[2])
RMul(a, b) ==
    LET g1 == GCD(Abs(a[1]), b[2])
        g2 == GCD(Abs(b[1]), a[2])
    IN  Norm((a[1] \div g1) * (b[1] \div g2), (a[2] \div g2) * (b[2] \div g1))
RDiv(a, b) == RMul(a, Norm(b[2], b[1]))
RLess(a, b) ==
    LET g == GCD(a[2], b[2])
    IN  a[1] * (b[2] \div g) < b[1] * (a[2] \div g)
RNeg(a) == <<-a[1], a[2]>>

(* ------------------------------- easing ------------------------------- *)

EasingNames == {"easeInQuad", "easeOutQuad", "easeInCubic"}

\* a linear ramp, c*t/d
easeLinear(t, c, d) == RMul(c, RDiv(t, d))

\* easeInQuad(x, t, b, c, d) = c*(t/=d)*t + b, called with b = 0
easeInQuad(t, c, d) == RMul(RMul(c, RDiv(t, d)), RDiv(t, d))

\* easeOutQuad(x, t, b, c, d) = -c*(t/=d)*(t-2) + b
easeOutQuad(t, c, d) == RMul(RMul(RNeg(c), RDiv(t, d)), RSub(RDiv(t, d), R(2)))

\* easeInCubic(x, t, b, c, d) = c*(t/=d)*t*t + b
easeInCubic(t, c, d) == RMul(RMul(RMul(c, RDiv(t, d)), RDiv(t, d)), RDiv(t, d))

Easing(name, t, c, d) ==
    CASE name = "easeInQuad"  -> easeInQuad(t, c, d)
      [] name = "easeOutQuad" -> easeOutQuad(t, c, d)
      [] name = "easeInCubic" -> easeInCubic(t, c, d)

(* ------------------------- primitives and kinds ----------------------- *)

\* The themes a chart is constructed with: Aristochart.Themes.default, or a
\* theme passed to the constructor whose point kind has the default
\* geometry and style and handlers that change nothing or throw.
Themes == {"default", "custom"}

\* The instances of the run.  yAxis and xAxis are the two axis primitives the
\* line chart creates and registers; p1, p2 are instances of the chart's
\* theme's "point" kind and m is an instance of a kind defined with render
\* and isInside but no events.
Prims == {"yAxis", "xAxis", "p1", "p2", "m"}

KindOf(p) ==
    CASE p \in {"yAxis", "xAxis"} -> "axis"
      [] p \in {"p1", "p2"}       -> "point"
      [] p = "m"                  -> "mark"

\* obj.isInside is supplied (Primitive.prototype.isInside = obj.isInside)
HasIsInside(p) == KindOf(p) \in {"point", "mark"}

\* the keys of obj.events.  The handler bodies belong to the theme (see
\* CallHandler)
EventsOf(p) ==
    IF KindOf(p) = "point" THEN {"click", "mouseover", "mousemove", "mouseout"}
    ELSE {}

\* this.mouseEnabled after construction: true by default, false when the
\* kind has no events
MouseEnabled(p) == EventsOf(p) # {}

\* point.isInside(x, y): x > -half && x < half && y > -half && y < half
IsInside(p, x, y) ==
    LET half == Norm(Side, 2)
    IN  /\ RLess(RNeg(half), x) /\ RLess(x, half)
        /\ RLess(RNeg(half), y) /\ RLess(y, half)

NumericProps == {"x", "y", "alpha"}

\* properties an instance holds: x, y, alpha are numbers, "stroke" is the
\* style's colour string (points only); any other name is undefined
HasProp(p, name) ==
    \/ name \in NumericProps
    \/ name = "stroke" /\ KindOf(p) = "point"

InitialProps(p) ==
    CASE p = "yAxis" -> [x |-> R(20), y |-> R(210), alpha |-> R(1)]
      [] p = "xAxis" -> [x |-> R(20), y |-> R(210), alpha |-> R(1)]
      [] p = "p1"    -> [x |-> R(0), y |-> R(0), alpha |-> R(1)]
      [] p = "p2"    -> [x |-> R(3), y |-> R(0), alpha |-> R(1)]
      [] p = "m"     -> [x |-> R(0), y |-> R(0), alpha |-> R(1)]

\* the completion callbacks a caller passes: cb1 changes nothing the model
\* holds; cbChain starts the next animation, this.animate({alpha: 0}, 1)
Callbacks == {"cb1", "cbChain"}

\* what a hook of a primitive does when invoked in an operation: nothing
\* visible, or it throws.  <<"none", "">> : no hook throws.  The handlers of
\* the default theme never throw.
Hooks == {"mouseover", "mousemove", "mouseout", "click", "render", "callback"}
Faults == {<<"none", "">>} \cup (Hooks \X {"p1"})

Range(s) == {s[i] : i \in 1..Len(s)}
IndexOf(s, e) ==
    IF e \in Range(s) THEN (CHOOSE i \in 1..Len(s) : s[i] = e /\ \A j \in 1..(i-1) : s[j] # e) - 1
    ELSE -1

(* ------------------------------- state -------------------------------- *)

VARIABLES
    registry,   \* Registry.registry
    props,      \* x, y, alpha of every instance
    abuf,       \* animationBuffer of every instance
    called,     \* the "called" flag set on a callback function
    mo,         \* _mouseover of every instance
    mbuf,       \* Aristochart.mouseBuffer
    mouseX, mouseY,   \* latest pointer position
    lastX, lastY,     \* _mouseX, _mouseY
    running,    \* Engine.running
    pending,    \* tick callbacks handed to requestAnimFrame and not yet run
    made,       \* every task ever enqueued (history)
    fired,      \* per task: times its callback was invoked for it (history)
    query,      \* the objectsUnder call of the last operation (history)
    log,        \* what the last operation invoked, in order (history)
    threw,      \* the last operation ended with an exception (history)
    last,       \* the last operation and the state it started from (history)
    built,      \* the kind last defined with Aristochart.Primitive and the
                \* instance last constructed from it
    theme       \* Aristochart.theme, set by the constructor

vars == <<registry, props, abuf, called, mo, mbuf, mouseX, mouseY, lastX, lastY,
          running, pending, made, fired, query, log, threw, last, built, theme>>

\* no objectsUnder call was made
NoQuery == [asked |-> FALSE, raised |-> FALSE, result |-> <<>>]

\* the mutable objects an operation works on
Heap == [props |-> props, abuf |-> abuf, called |-> called, fired |-> fired,
         made |-> made, mo |-> mo, mbuf |-> mbuf, lx |-> lastX, ly |-> lastY,
         query |-> NoQuery, log |-> <<>>, threw |-> FALSE]

(* ------------------------------ Registry ------------------------------ *)

\* Array.prototype.splice(start, 1) on s (start is 0-based; a negative start
\* counts from the end)
Splice1(s, start) ==
    LET n == Len(s)
        k == IF start < 0 THEN (IF n + start < 0 THEN 0 ELSE n + start)
             ELSE (IF start > n THEN n ELSE start)
    IN  IF k >= n THEN s
        ELSE SubSeq(s, 1, k) \o SubSeq(s, k + 2, n)

\* a remove that deletes the entry at the head, whatever obj is
RegistryRemoveShift(reg, obj) == Splice1(reg, 0)

\* Registry.remove(obj): this.registry.splice(this.registry.indexOf(obj), 1)
RegistryRemove(reg, obj) == Splice1(reg, IndexOf(reg, obj))

\* Registry.add(primitive): push
RegistryAdd(reg, primitive) == Append(reg, primitive)

\* Registry.objectsUnder(x, y): calls primitive.isInside on every entry in
\* order; an entry whose kind has no isInside makes the call throw
ObjectsUnderThrows(reg) == \E i \in 1..Len(reg) : ~HasIsInside(reg[i])

\* a hit-test against the raw coordinates, not those relative to the primitive
ObjectsUnderAbsolute(reg, pr, x, y) ==
    SelectSeq(reg, LAMBDA q : IsInside(q, R(x), R(y)))

ObjectsUnder(reg, pr, x, y) ==
    SelectSeq(reg, LAMBDA q : IsInside(q, RSub(R(x), pr[q].x), RSub(R(y), pr[q].y)))

(* ------------------------- Primitive.animate -------------------------- *)

\* Aristochart.Error(msg): throws when DEBUG is set, else returns
ErrorThrows == DEBUG

\* the values passed as callback: a function, undefined, or (line 589) a
\* string naming the easing
IsString(v) == v \notin (Callbacks \cup {"undefined"})

\* the for-in loop of Primitive.prototype.animate from entry i on;
\* properties is the sequence of <<name, target>> in key order; frames and
\* the targets are numbers (rationals)
RECURSIVE AnimateLoop(_, _, _, _, _, _, _)
AnimateLoop(H, p, properties, i, frames, callback, easing) ==
    IF i > Len(properties) THEN H
    ELSE
      LET prop == properties[i][1]
          property == properties[i][2]
      IN
      IF ~HasProp(p, prop) \/ prop \notin NumericProps THEN
        IF ErrorThrows THEN [H EXCEPT !.threw = TRUE]
        ELSE AnimateLoop(H, p, properties, i + 1, frames, callback, easing)
      ELSE
        LET task == [id |-> Len(H.made) + 1,
                     frame |-> frames,
                     length |-> frames,
                     callback |-> callback,
                     property |-> prop,
                     initialValue |-> H.props[p][prop],
                     range |-> RSub(property, H.props[p][prop]),
                     easing |-> IF easing \in EasingNames THEN easing ELSE "easeInQuad"]
            H1 == [H EXCEPT !.abuf[p] = Append(@, task),
                            !.made = Append(@, [p |-> p, property |-> prop, target |-> property,
                                                 frames |-> frames, callback |-> callback,
                                                 easing |-> task.easing,
                                                 calls |-> 0, clean |-> TRUE, done |-> FALSE]),
                            !.fired = Append(@, 0)]
        IN  AnimateLoop(H1, p, properties, i + 1, frames, callback, easing)

\* Primitive.prototype.animate(properties, frames, callback, easing)
PrimitiveAnimate(H, p, properties, frames, callbackArg, easingArg) ==
    LET easing == IF IsString(callbackArg) THEN callbackArg ELSE easingArg
        callback == IF IsString(callbackArg) THEN "undefined" ELSE callbackArg
    IN  IF easing # "undefined" /\ easing \notin EasingNames /\ ErrorThrows
        THEN [H EXCEPT !.threw = TRUE]
        ELSE AnimateLoop(H, p, properties, 1, frames, callback, easing)

\* the duration argument of transition: not given, or a number of seconds
NoDuration == [given |-> FALSE, v |-> R(0)]
Seconds(q) == [given |-> TRUE, v |-> q]

\* duration = (duration) ? duration * 60 : 60
\* (undefined and 0 are both falsy)
FramesFor(duration) ==
    IF duration.given /\ duration.v # R(0)
    THEN RMul(duration.v, R(FramesPerSecond))
    ELSE R(FramesPerSecond)

\* Primitive.prototype.transition(transition, duration, callback, easing):
\* the switch sets x for the two sliding transitions and chooses the
\* properties, in key order; an unknown name leaves animation undefined,
\* over which animate's for-in loop does not iterate
PrimitiveTransition(H, p, transition, duration, callback, easing) ==
    LET cache == H.props[p].x
        H1 == CASE transition = "fadeinright" ->
                     [H EXCEPT !.props[p].x = RSub(cache, R(Shift))]
                [] transition = "fadeinleft" ->
                     [H EXCEPT !.props[p].x = RAdd(cache, R(Shift))]
                [] OTHER -> H
        animation ==
              CASE transition = "fadeout" -> << <<"alpha", R(0)>> >>
                [] transition = "fadein" -> << <<"alpha", R(1)>> >>
                [] transition \in {"fadeinright", "fadeinleft"} ->
                     << <<"alpha", R(1)>>, <<"x", cache>> >>
                [] OTHER -> <<>>
    IN  PrimitiveAnimate(H1, p, animation, FramesFor(duration), callback, easing)

(* ------------------------- Primitive.update --------------------------- *)

\* what a completion callback does when called on primitive p
CallbackBody(H, p, callback) ==
    IF callback = "cbChain"
    THEN PrimitiveAnimate(H, p, << <<"alpha", R(0)>> >>, R(1), "undefined", "undefined")
    ELSE H

RECURSIVE AnimLoop(_, _, _, _, _, _)
AnimLoop(H, p, i, length, newBuffer, flt) ==
    IF i > length THEN [H EXCEPT !.abuf[p] = newBuffer]
    ELSE
      LET a == H.abuf[p][i] IN
      IF a.frame # R(0) THEN
        LET value == Easing(a.easing, RAdd(RSub(a.length, a.frame), R(1)), a.range, a.length)
            a2 == [a EXCEPT !.frame = RSub(a.frame, R(1))]
            H2 == [H EXCEPT !.props[p][a.property] = RAdd(a.initialValue, value),
                            !.abuf[p][i] = a2]
        IN  AnimLoop(H2, p, i + 1, length, Append(newBuffer, a2), flt)
      ELSE IF a.callback # "undefined" /\ ~H.called[a.callback] THEN
        LET H2 == [H EXCEPT !.fired[a.id] = IF @ < MaxFired THEN @ + 1 ELSE @,
                            !.log = Append(@, <<"callback", p>>)]
        IN  IF flt = <<"callback", p>> THEN [H2 EXCEPT !.threw = TRUE]
            ELSE AnimLoop([CallbackBody(H2, p, a.callback) EXCEPT !.called[a.callback] = TRUE],
                          p, i + 1, length, newBuffer, flt)
      ELSE AnimLoop(H, p, i + 1, length, newBuffer, flt)

\* Primitive.prototype.update
\* (made is history: per task, the update() calls begun on its primitive
\* while it was queued, whether all of them returned normally, and whether
\* the task has left the buffer)
PrimitiveUpdate(H, p, flt) ==
    LET H1 == [H EXCEPT !.log = Append(@, <<"update", p>>)]
        H2 == IF Len(H.abuf[p]) = 0 THEN H1 ELSE AnimLoop(H1, p, 1, Len(H.abuf[p]), <<>>, flt)
        before == {H.abuf[p][i].id : i \in 1..Len(H.abuf[p])}
        after == {H2.abuf[p][i].id : i \in 1..Len(H2.abuf[p])}
    IN  [H2 EXCEPT !.made = [i \in DOMAIN @ |->
            IF i \in before
            THEN [@[i] EXCEPT !.calls = IF @ < (H.made[i].frames[1] \div H.made[i].frames[2]) + 2
                                        THEN @ + 1 ELSE @,
                              !.clean = @ /\ ~H2.threw,
                              !.done = i \notin after]
            ELSE @[i]]]

\* Primitive.prototype.render: obj.render may throw
PrimitiveRender(H, p, flt) ==
    LET H1 == [H EXCEPT !.log = Append(@, <<"render", p>>)]
    IN  IF flt = <<"render", p>> THEN [H1 EXCEPT !.threw = TRUE] ELSE H1

\* Registry.update: for (i = length - 1; i >= 0; i--) registry[i].update()
RECURSIVE RegistryUpdate(_, _, _, _)
RegistryUpdate(H, reg, i, flt) ==
    IF i < 1 \/ H.threw THEN H
    ELSE RegistryUpdate(PrimitiveUpdate(H, reg[i], flt), reg, i - 1, flt)

\* Registry.render: for (i = length - 1; i >= 0; i--) registry[i].render()
RECURSIVE RegistryRender(_, _, _, _)
RegistryRender(H, reg, i, flt) ==
    IF i < 1 \/ H.threw THEN H
    ELSE RegistryRender(PrimitiveRender(H, reg[i], flt), reg, i - 1, flt)

(* -------------------------- pointer dispatcher ------------------------ *)

\* the handlers of the default theme's point: mouseover starts
\* this.animate({x: this.x + 30, y: this.y + 30}, 40); click, mousemove and
\* mouseout write the console and the flags highlighted and mouseover,
\* which nothing reads
ThemeHandler(H, p, hook) ==
    IF hook = "mouseover"
    THEN PrimitiveAnimate(H, p,
                          << <<"x", RAdd(H.props[p].x, R(HoverShift))>>,
                             <<"y", RAdd(H.props[p].y, R(HoverShift))>> >>,
                          R(HoverFrames), "undefined", "undefined")
    ELSE H

\* invoke primitive.events[hook] if the kind defines it
CallHandler(H, p, hook, flt) ==
    IF hook \notin EventsOf(p) THEN H
    ELSE LET H1 == [H EXCEPT !.log = Append(@, <<hook, p>>)]
         IN  IF theme = "default" THEN ThemeHandler(H1, p, hook)
             ELSE IF flt = <<hook, p>> THEN [H1 EXCEPT !.threw = TRUE] ELSE H1

\* first loop of Aristochart.prototype.update, over current
RECURSIVE OverLoop(_, _, _, _)
OverLoop(H, current, i, flt) ==
    IF i > Len(current) \/ H.threw THEN H
    ELSE
      LET primitive == current[i] IN
      IF ~H.mo[primitive] THEN
        LET H1 == CallHandler(H, primitive, "mouseover", flt)
        IN  IF H1.threw THEN H1
            ELSE OverLoop([H1 EXCEPT !.mo[primitive] = TRUE,
                                     !.mbuf = Append(@, primitive)],
                          current, i + 1, flt)
      ELSE OverLoop(CallHandler(H, primitive, "mousemove", flt), current, i + 1, flt)

\* a dispatch without its second loop: the buffer is never pruned
OutLoopSkipped(H, current, i, buffer, flt) == H

\* second loop, over the mouse buffer; _buffer is the buffer under construction
RECURSIVE OutLoop(_, _, _, _, _)
OutLoop(H, current, i, buffer, flt) ==
    IF H.threw THEN H
    ELSE IF i > Len(H.mbuf) THEN [H EXCEPT !.mbuf = buffer]
    ELSE
      LET primitive == H.mbuf[i] IN
      IF primitive \notin Range(current) THEN
        LET H1 == CallHandler(H, primitive, "mouseout", flt)
        IN  IF H1.threw THEN H1
            ELSE OutLoop([H1 EXCEPT !.mo[primitive] = FALSE], current, i + 1, buffer, flt)
      ELSE OutLoop(H, current, i + 1, Append(buffer, primitive), flt)

\* the dispatch run on every tick, whether or not the pointer has moved
AristochartUpdateUnthrottled(H, reg, mx, my, flt) ==
    LET current == ObjectsUnder(reg, H.props, mx, my)
        H1 == IF ObjectsUnderThrows(reg)
              THEN [H EXCEPT !.threw = TRUE,
                             !.query = [asked |-> TRUE, raised |-> TRUE, result |-> <<>>]]
              ELSE LET Hq == [H EXCEPT !.query = [asked |-> TRUE, raised |-> FALSE,
                                                  result |-> current]]
                       Ha == OverLoop(Hq, current, 1, flt)
                       Hb == OutLoop(Ha, current, 1, <<>>, flt)
                   IN  IF Hb.threw THEN Hb
                       ELSE [Hb EXCEPT !.lx = mx, !.ly = my]
    IN  IF H1.threw THEN H1 ELSE RegistryUpdate(H1, reg, Len(reg), flt)

\* Aristochart.prototype.update: the throttled hover dispatch, then
\* registry.update()
AristochartUpdate(H, reg, mx, my, flt) ==
    LET moved == mx # H.lx \/ my # H.ly
        current == ObjectsUnder(reg, H.props, mx, my)
        H1 == IF ~moved THEN H
              ELSE IF ObjectsUnderThrows(reg)
                   THEN [H EXCEPT !.threw = TRUE,
                                  !.query = [asked |-> TRUE, raised |-> TRUE, result |-> <<>>]]
              ELSE LET Hq == [H EXCEPT !.query = [asked |-> TRUE, raised |-> FALSE,
                                                  result |-> current]]
                       Ha == OverLoop(Hq, current, 1, flt)
                       Hb == OutLoop(Ha, current, 1, <<>>, flt)
                   IN  IF Hb.threw THEN Hb
                       ELSE [Hb EXCEPT !.lx = mx, !.ly = my]
    IN  IF H1.threw THEN H1 ELSE RegistryUpdate(H1, reg, Len(reg), flt)

\* Aristochart.prototype.render
AristochartRender(H, reg, flt) == RegistryRender(H, reg, Len(reg), flt)

\* a tick body that renders the registry before it updates it
TickBodyRenderFirst(H, reg, mx, my, flt) ==
    LET H1 == AristochartRender(H, reg, flt)
    IN  IF H1.threw THEN H1 ELSE AristochartUpdate(H1, reg, mx, my, flt)

\* the body of Engine tick after requestAnimFrame(tick)
TickBody(H, reg, mx, my, flt) ==
    LET H1 == AristochartUpdate(H, reg, mx, my, flt)
    IN  IF H1.threw THEN H1 ELSE AristochartRender(H1, reg, flt)

\* the click listener: registry.objectsUnder(...).forEach(click handler)
RECURSIVE ClickLoop(_, _, _, _)
ClickLoop(H, current, i, flt) ==
    IF i > Len(current) \/ H.threw THEN H
    ELSE ClickLoop(CallHandler(H, current[i], "click", flt), current, i + 1, flt)

ClickListener(H, reg, x, y, flt) ==
    LET current == ObjectsUnder(reg, H.props, x, y)
    IN  IF ObjectsUnderThrows(reg)
        THEN [H EXCEPT !.threw = TRUE,
                       !.query = [asked |-> TRUE, raised |-> TRUE, result |-> <<>>]]
        ELSE ClickLoop([H EXCEPT !.query = [asked |-> TRUE, raised |-> FALSE,
                                            result |-> current]],
                       current, 1, flt)

(* ---------------------- kinds and construction ------------------------ *)

\* a key that is not there
Absent == "absent"

\* JavaScript values down to one level of nesting: nothing (the key is
\* missing), a scalar v, or an object with the two keys a and b, each Absent
\* or a scalar
None == [t |-> "none", v |-> Absent, a |-> Absent, b |-> Absent]
Sc(v) == [t |-> "s", v |-> v, a |-> Absent, b |-> Absent]
Ob(a, b) == [t |-> "o", v |-> Absent, a |-> a, b |-> b]

\* the keys of an instance and of the data and style objects
Keys == {"alpha", "mouseEnabled", "x", "events"}
Empty == [k \in Keys |-> None]

\* one key of Aristochart._deepMerge(options, defaults): two objects are
\* merged key by key into the one defaults holds, anything else is replaced
MergeValue(option, default) ==
    IF option.t = "none" THEN default
    ELSE IF option.t = "o" /\ default.t = "o"
    THEN Ob(IF option.a # Absent THEN option.a ELSE default.a,
            IF option.b # Absent THEN option.b ELSE default.b)
    ELSE option

\* Aristochart._deepMerge(options, defaults)
DeepMerge(options, defaults) == [k \in Keys |-> MergeValue(options[k], defaults[k])]

\* a definition that accepts events without isInside
DefinitionFailsLax(obj) == DEBUG /\ ~obj.render

\* Aristochart.Primitive(style, obj): the two checks throw through
\* Aristochart.Error and no constructor is returned
DefinitionFails(obj) ==
    DEBUG /\ (~obj.render \/ (obj.events.t # "none" /\ ~obj.isInside))

NoInstance == [made |-> FALSE, this |-> Empty]
NoKind == [obj |-> [render |-> FALSE, events |-> None, isInside |-> FALSE, init |-> Absent],
           ctx |-> FALSE, defined |-> FALSE, events |-> None, inst |-> NoInstance, error |-> "none"]

\* an instance built with the style merged before the data
ConstructStyleFirst(K, data, style) ==
    LET events == IF K.events.t = "none" THEN Ob(Absent, Absent) ELSE K.events
        this0 == [alpha |-> Sc("1"),
                  mouseEnabled |-> Sc(IF events.a = Absent /\ events.b = Absent
                                      THEN "false" ELSE "true"),
                  x |-> None, events |-> events]
        this1 == DeepMerge(style, this0)
        this2 == IF K.obj.init = Absent THEN this1
                 ELSE [this1 EXCEPT ![K.obj.init] = Sc("i")]
        this3 == DeepMerge(data, this2)
    IN  [K EXCEPT !.inst = [made |-> TRUE, this |-> this3], !.error = "none"]

\* new Primitive(data) for the kind K: defaults, events, mouseEnabled, merge
\* of data, init, merge of style.  this.events is the kind's own obj.events
\* object: an events object in data or style is merged into it for as long
\* as this.events still refers to it, which changes the kind (K.events).
\* (An object in data that style merges into is changed too; data and style
\* are fresh literals in every call here.)
Construct(K, data, style) ==
    LET shared0 == K.events.t # "none"
        events == IF shared0 THEN K.events ELSE Ob(Absent, Absent)
        this0 == [alpha |-> Sc("1"),
                  mouseEnabled |-> Sc(IF events.a = Absent /\ events.b = Absent
                                      THEN "false" ELSE "true"),
                  x |-> None, events |-> events]
        this1 == DeepMerge(data, this0)
        kind1 == IF shared0 /\ data["events"].t = "o" THEN this1["events"] ELSE K.events
        shared1 == shared0 /\ data["events"].t # "s"
        this2 == IF K.obj.init = Absent THEN this1
                 ELSE [this1 EXCEPT ![K.obj.init] = Sc("i")]
        this3 == DeepMerge(style, this2)
        kind3 == IF shared1 /\ style["events"].t = "o" THEN this3["events"] ELSE kind1
    IN  [K EXCEPT !.inst = [made |-> TRUE, this |-> this3], !.events = kind3,
                  !.error = "none"]

(* ------------------------------- inputs ------------------------------- *)

PointerPositions == {<<0, 0>>, <<6, 0>>}
AnimPrims == {"p1", "p2"}
UserPrims == {"p1", "p2", "m"}
PropertiesArgs == { << <<"x", 10>> >>,
                    << <<"x", 4>>, <<"alpha", 0>> >>,
                    << <<"zz", 1>>, <<"x", 10>> >>,
                    << <<"x", 10>>, <<"stroke", 1>> >> }
CallbackArgs == Callbacks \cup {"undefined", "easeOutQuad"}
EasingArgs == {"undefined", "linear"}
AddLists == { <<"p1", "p2">> }
NoFault == <<"none", "">>
AnimFaults == {NoFault, <<"callback", "p1">>, <<"render", "p1">>}
ClickFaults == {NoFault, <<"click", "p1">>}
TickFaults == {NoFault} \cup ({"mouseover", "mousemove", "mouseout", "render"} \X {"p1"})

KindArgs == [render : BOOLEAN, events : {None, Ob(Absent, Absent), Ob("f", Absent)},
             isInside : BOOLEAN, init : {Absent, "x", "alpha"}]
DataArgs == { Empty,
              [Empty EXCEPT !["alpha"] = Sc("d")],
              [Empty EXCEPT !["x"] = Sc("d"), !["mouseEnabled"] = Sc("d")],
              [Empty EXCEPT !["x"] = Ob("d", "d")],
              [Empty EXCEPT !["events"] = Ob("d", Absent)],
              [Empty EXCEPT !["events"] = Sc("d")] }
StyleArgs == { Empty,
               [Empty EXCEPT !["alpha"] = Sc("s"), !["x"] = Sc("s")],
               [Empty EXCEPT !["mouseEnabled"] = Sc("s")],
               [Empty EXCEPT !["x"] = Ob(Absent, "s")],
               [Empty EXCEPT !["events"] = Ob(Absent, "s")] }
Uses == {"update", "render", "isInside"}

TransitionArgs == {"fadeout", "fadein", "fadeinright", "fadeinleft", "slide"}
DurationArgs == {NoDuration, Seconds(R(0)), Seconds(Norm(1, 30)), Seconds(Norm(1, 120)),
                 Seconds(Norm(-1, 60))}

(* ------------------------------- actions ------------------------------ *)

\* the assignments of an operation; the hover buffer, which a throwing
\* mouseout handler lets grow without limit, is cut off at MaxHover, and a
\* frame count that has stepped past zero is followed down to -MaxOvershoot
\* a fault the chart can show: only a custom theme's handlers throw
Applies(flt) ==
    flt[1] \in {"mouseover", "mousemove", "mouseout", "click"} => theme = "custom"

Commit(H) ==
    /\ Len(H.mbuf) <= MaxHover
    /\ Len(H.made) <= MaxTasks
    /\ \A p \in Prims : \A k \in 1..Len(H.abuf[p]) :
          ~RLess(H.abuf[p][k].frame, R(-MaxOvershoot))
    /\ props' = H.props
    /\ abuf' = H.abuf
    /\ called' = H.called
    /\ fired' = H.fired
    /\ made' = H.made
    /\ mo' = H.mo
    /\ mbuf' = H.mbuf
    /\ lastX' = H.lx
    /\ lastY' = H.ly
    /\ query' = H.query
    /\ log' = H.log
    /\ threw' = H.threw

\* history: the operation, its arguments and what it started from
Snapshot(op, arg, args) ==
    [op |-> op, arg |-> arg, args |-> args,
     reg |-> registry, mbuf |-> mbuf, moved |-> (mouseX # lastX \/ mouseY # lastY),
     running |-> running, n0 |-> Len(made)]

Init ==
    /\ registry = <<"yAxis", "xAxis">>
    /\ props = [p \in Prims |-> InitialProps(p)]
    /\ abuf = [p \in Prims |-> <<>>]
    /\ called = [c \in Callbacks |-> FALSE]
    /\ mo = [p \in Prims |-> FALSE]
    /\ mbuf = <<>>
    /\ mouseX = InitialMouse /\ mouseY = InitialMouse
    /\ lastX = InitialMouse /\ lastY = InitialMouse
    /\ running = TRUE
    /\ pending = 1
    /\ made = <<>>
    /\ fired = <<>>
    /\ query = NoQuery
    /\ log = <<>>
    /\ threw = FALSE
    /\ last = [op |-> "new", arg |-> "", args |-> <<>>,
               reg |-> <<>>, mbuf |-> <<>>, moved |-> FALSE, running |-> FALSE, n0 |-> 0]
    /\ built = NoKind
    /\ theme \in Themes

\* registry.add(primitive)
Add(p) ==
    /\ Len(registry) < MaxReg
    /\ registry' = RegistryAdd(registry, p)
    /\ last' = Snapshot("add", p, <<>>)
    /\ query' = NoQuery /\ log' = <<>> /\ threw' = FALSE
    /\ UNCHANGED <<theme, built, props, abuf, called, mo, mbuf, mouseX, mouseY, lastX, lastY,
                   running, pending, made, fired>>

\* registry.add([...]): concat
AddList(ps) ==
    /\ Len(registry) + Len(ps) <= MaxReg
    /\ registry' = registry \o ps
    /\ last' = Snapshot("addList", "", ps)
    /\ query' = NoQuery /\ log' = <<>> /\ threw' = FALSE
    /\ UNCHANGED <<theme, built, props, abuf, called, mo, mbuf, mouseX, mouseY, lastX, lastY,
                   running, pending, made, fired>>

\* registry.remove(obj)
Remove(p) ==
    /\ registry' = RegistryRemove(registry, p)
    /\ last' = Snapshot("remove", p, <<>>)
    /\ query' = NoQuery /\ log' = <<>> /\ threw' = FALSE
    /\ UNCHANGED <<theme, built, props, abuf, called, mo, mbuf, mouseX, mouseY, lastX, lastY,
                   running, pending, made, fired>>

\* registry.objectsUnder(x, y) called on its own
Query(x, y) ==
    /\ query' = [asked |-> TRUE, raised |-> ObjectsUnderThrows(registry),
                 result |-> IF ObjectsUnderThrows(registry) THEN <<>>
                            ELSE ObjectsUnder(registry, props, x, y)]
    /\ threw' = ObjectsUnderThrows(registry)
    /\ log' = <<>>
    /\ last' = Snapshot("query", "", <<x, y>>)
    /\ UNCHANGED <<theme, built, registry, props, abuf, called, mo, mbuf, mouseX, mouseY, lastX, lastY,
                   running, pending, made, fired>>

\* the mousemove listener
\* a listener that keeps the first coordinates received since the last check
MouseMoveFirstWins(x, y) ==
    /\ IF mouseX # lastX \/ mouseY # lastY
       THEN UNCHANGED <<mouseX, mouseY>>
       ELSE mouseX' = x /\ mouseY' = y
    /\ last' = Snapshot("mousemove", "", <<x, y>>)
    /\ query' = NoQuery /\ log' = <<>> /\ threw' = FALSE
    /\ UNCHANGED <<theme, built, registry, props, abuf, called, mo, mbuf, lastX, lastY,
                   running, pending, made, fired>>

MouseMove(x, y) ==
    /\ mouseX' = x /\ mouseY' = y
    /\ last' = Snapshot("mousemove", "", <<x, y>>)
    /\ query' = NoQuery /\ log' = <<>> /\ threw' = FALSE
    /\ UNCHANGED <<theme, built, registry, props, abuf, called, mo, mbuf, lastX, lastY,
                   running, pending, made, fired>>

\* the click listener
Click(x, y, flt) ==
    /\ Applies(flt)
    /\ Commit(ClickListener(Heap, registry, x, y, flt))
    /\ last' = Snapshot("click", "", <<x, y>>)
    /\ UNCHANGED <<theme, built, registry, mouseX, mouseY, running, pending>>

\* Engine.start(): sets running and runs tick once, synchronously
Start(flt) ==
    /\ Applies(flt)
    /\ pending < MaxPending
    /\ running' = TRUE
    /\ pending' = pending + 1
    /\ Commit(TickBody(Heap, registry, mouseX, mouseY, flt))
    /\ last' = Snapshot("start", "", <<>>)
    /\ UNCHANGED <<theme, built, registry, mouseX, mouseY>>

\* Engine.stop()
Stop ==
    /\ running' = FALSE
    /\ last' = Snapshot("stop", "", <<>>)
    /\ query' = NoQuery /\ log' = <<>> /\ threw' = FALSE
    /\ UNCHANGED <<theme, built, registry, props, abuf, called, mo, mbuf, mouseX, mouseY, lastX, lastY,
                   pending, made, fired>>

\* a tick that asks for the next frame after update and render, so that an
\* exception leaves nothing scheduled
FrameScheduleLast(flt) ==
    /\ Applies(flt)
    /\ pending > 0
    /\ IF running
       THEN LET H == TickBody(Heap, registry, mouseX, mouseY, flt)
            IN  /\ pending' = IF H.threw THEN pending - 1 ELSE pending
                /\ Commit(H)
       ELSE /\ pending' = pending - 1
            /\ Commit(Heap)
    /\ last' = Snapshot("frame", "", <<>>)
    /\ UNCHANGED <<theme, built, registry, mouseX, mouseY, running>>

\* a tick that does not look at the running flag
FrameIgnoresFlag(flt) ==
    /\ Applies(flt)
    /\ pending > 0
    /\ pending' = IF running THEN pending ELSE pending - 1
    /\ Commit(TickBody(Heap, registry, mouseX, mouseY, flt))
    /\ last' = Snapshot("frame", "", <<>>)
    /\ UNCHANGED <<theme, built, registry, mouseX, mouseY, running>>

\* a tick handed to requestAnimFrame runs: if (running) { requestAnimFrame(tick);
\* update; render }
Frame(flt) ==
    /\ Applies(flt)
    /\ pending > 0
    /\ IF running
       THEN /\ pending' = pending
            /\ Commit(TickBody(Heap, registry, mouseX, mouseY, flt))
       ELSE /\ pending' = pending - 1
            /\ Commit(Heap)
    /\ last' = Snapshot("frame", "", <<>>)
    /\ UNCHANGED <<theme, built, registry, mouseX, mouseY, running>>

\* the properties argument with its integer targets as numbers
Numbers(properties) ==
    [k \in 1..Len(properties) |-> <<properties[k][1], R(properties[k][2])>>]

\* primitive.animate(properties, frames, callback, easing), called by the
\* chart's code outside a tick
Animate(p, properties, frames, callbackArg, easingArg) ==
    /\ Len(made) + Len(properties) <= MaxTasks
    /\ Commit(PrimitiveAnimate(Heap, p, Numbers(properties), R(frames), callbackArg, easingArg))
    /\ last' = Snapshot("animate", p, <<properties, frames, callbackArg, easingArg>>)
    /\ UNCHANGED <<theme, built, registry, mouseX, mouseY, running, pending>>

\* Aristochart.Primitive(style, obj)
\* Aristochart.Primitive(style, obj, canvas, ctx), with or without a drawing
\* context
Define(obj, ctx) ==
    /\ built' = [obj |-> obj, ctx |-> ctx, defined |-> ~DefinitionFails(obj),
                 events |-> IF DefinitionFails(obj) THEN None ELSE obj.events,
                 inst |-> NoInstance,
                 error |-> IF DefinitionFails(obj) THEN "definition" ELSE "none"]
    /\ threw' = DefinitionFails(obj)
    /\ last' = Snapshot("define", "", <<obj, ctx>>)
    /\ query' = NoQuery /\ log' = <<>>
    /\ UNCHANGED <<theme, registry, props, abuf, called, mo, mbuf, mouseX, mouseY, lastX, lastY,
                   running, pending, made, fired>>

\* new Primitive(data) with the constructor Aristochart.Primitive returned
New(data, style) ==
    /\ built.defined
    /\ built' = Construct(built, data, style)
    /\ threw' = FALSE
    /\ last' = Snapshot("construct", "", <<data, style, built.events>>)
    /\ query' = NoQuery /\ log' = <<>>
    /\ UNCHANGED <<theme, registry, props, abuf, called, mo, mbuf, mouseX, mouseY, lastX, lastY,
                   running, pending, made, fired>>

\* a call of update(), render() or isInside() on the instance raises a
\* TypeError: a kind defined without isInside has none to call, and render()
\* begins with this.ctx.save(), which needs the context given at definition
UseThrows(method) ==
    \/ method = "isInside" /\ ~built.obj.isInside
    \/ method = "render" /\ ~built.ctx

\* the tick or the dispatcher calls update(), render() or isInside() on the
\* instance
Use(method) ==
    /\ built.inst.made
    /\ built' = [built EXCEPT !.error = IF UseThrows(method) THEN "type" ELSE "none"]
    /\ threw' = UseThrows(method)
    /\ last' = Snapshot("use", method, <<>>)
    /\ query' = NoQuery /\ log' = <<>>
    /\ UNCHANGED <<theme, registry, props, abuf, called, mo, mbuf, mouseX, mouseY, lastX, lastY,
                   running, pending, made, fired>>

\* primitive.transition(transition, duration, callback, easing), called by
\* the chart's code outside a tick
Transition(p, transition, duration, callbackArg, easingArg) ==
    /\ Len(made) + 2 <= MaxTasks
    /\ Commit(PrimitiveTransition(Heap, p, transition, duration, callbackArg, easingArg))
    /\ last' = Snapshot("transition", p, <<transition, duration, callbackArg, easingArg>>)
    /\ UNCHANGED <<theme, built, registry, mouseX, mouseY, running, pending>>

(* --------------------------- specifications --------------------------- *)

\* the whole program
Next ==
    \/ \E p \in Prims : Add(p)
    \/ \E ps \in AddLists : AddList(ps)
    \/ \E p \in Prims : Remove(p)
    \/ \E pos \in PointerPositions : Query(pos[1], pos[2])
    \/ \E pos \in PointerPositions : MouseMove(pos[1], pos[2])
    \/ \E pos \in PointerPositions, flt \in Faults : Click(pos[1], pos[2], flt)
    \/ \E flt \in Faults : Start(flt)
    \/ Stop
    \/ \E flt \in Faults : Frame(flt)
    \/ \E p \in AnimPrims, properties \in PropertiesArgs, frames \in 1..MaxFrames,
          callbackArg \in CallbackArgs, easingArg \in EasingArgs :
          Animate(p, properties, frames, callbackArg, easingArg)
    \/ \E p \in AnimPrims, transition \in TransitionArgs, duration \in DurationArgs,
          callbackArg \in CallbackArgs, easingArg \in EasingArgs :
          Transition(p, transition, duration, callbackArg, easingArg)
    \/ \E obj \in KindArgs, ctx \in BOOLEAN : Define(obj, ctx)
    \/ \E data \in DataArgs, style \in StyleArgs : New(data, style)
    \/ \E method \in Uses : Use(method)

Spec == Init /\ [][Next]_vars

\* the registry alone
NextRegistry ==
    \/ \E p \in Prims : Add(p)
    \/ \E ps \in AddLists : AddList(ps)
    \/ \E p \in Prims : Remove(p)
    \/ \E pos \in PointerPositions : Query(pos[1], pos[2])

SpecRegistry == Init /\ [][NextRegistry]_vars

\* the engine driving a registry of points, the pointer at rest
NextEngine ==
    \/ \E p \in AnimPrims : Add(p)
    \/ \E p \in AnimPrims : Remove(p)
    \/ \E flt \in Faults : Start(flt)
    \/ Stop
    \/ \E flt \in Faults : Frame(flt)

SpecEngine == Init /\ [][NextEngine]_vars

\* animation: tasks enqueued on a registered point and advanced by the ticks
NextAnim ==
    \/ \E p \in {"p1"} : Add(p)
    \/ \E flt \in AnimFaults : Frame(flt)
    \/ \E properties \in PropertiesArgs, frames \in {1, MaxFrames},
          callbackArg \in {"cb1", "easeOutQuad"}, easingArg \in EasingArgs :
          Animate("p1", properties, frames, callbackArg, easingArg)

SpecAnim == Init /\ [][NextAnim]_vars

\* the pointer dispatcher: registry changes, pointer input and ticks
\* under the default theme a hovered point runs two tasks of HoverFrames
\* frames: one point and the removals that bare it keep those runs within
\* reach
HoverAdds(all) == IF theme = "default" THEN {"p1"} ELSE all
HoverRemoves(all) == IF theme = "default" THEN {"yAxis", "xAxis", "p1"} ELSE all

NextDispatch ==
    \/ \E p \in HoverAdds(UserPrims) : Add(p)
    \/ \E p \in HoverRemoves(Prims) : Remove(p)
    \/ \E pos \in PointerPositions : MouseMove(pos[1], pos[2])
    \/ \E pos \in PointerPositions, flt \in ClickFaults : Click(pos[1], pos[2], flt)
    \/ \E flt \in TickFaults : Frame(flt)

SpecDispatch == Init /\ [][NextDispatch]_vars

\* the tick loop: a point with an animation and hover handlers, driven by
\* the ticks of the engine the constructor started, until the chart's code
\* stops it
LoopFaults == {NoFault, <<"mouseover", "p1">>, <<"callback", "p1">>, <<"render", "p1">>}

NextLoop ==
    \/ \E p \in {"p1"} : Add(p)
    \/ \E p \in {"yAxis", "xAxis"} : Remove(p)
    \/ MouseMove(0, 0)
    \/ Stop
    \/ \E flt \in LoopFaults : Frame(flt)
    \/ /\ theme = "custom"
       /\ Animate("p1", << <<"x", 10>> >>, MaxFrames, "cb1", "undefined")

SpecLoop == Init /\ [][NextLoop]_vars

\* hover: points added and removed, the pointer moving between two places,
\* and the ticks
NextHover ==
    \/ \E p \in HoverAdds(AnimPrims) : Add(p)
    \/ \E p \in HoverRemoves(Prims \ {"m"}) : Remove(p)
    \/ \E pos \in PointerPositions : MouseMove(pos[1], pos[2])
    \/ \E flt \in TickFaults : Frame(flt)

SpecHover == Init /\ [][NextHover]_vars

\* chained animation: the completion callback of a task starts the next one
NextChain ==
    \/ Add("p1")
    \/ Frame(NoFault)
    \/ \E properties \in {<< <<"x", 10>> >>, << <<"x", 4>>, <<"alpha", 0>> >>},
          frames \in 1..MaxFrames, callbackArg \in {"cbChain", "undefined"} :
          Animate("p1", properties, frames, callbackArg, "undefined")

SpecChain == Init /\ [][NextChain]_vars

\* kinds: definitions, the instances constructed from them and their use
NextKinds ==
    \/ \E obj \in KindArgs, ctx \in BOOLEAN : Define(obj, ctx)
    \/ \E data \in DataArgs, style \in StyleArgs : New(data, style)
    \/ \E method \in Uses : Use(method)

SpecKinds == Init /\ [][NextKinds]_vars

\* transitions: a registered point faded and slid, and the ticks
NextTransition ==
    \/ Add("p1")
    \/ Frame(NoFault)
    \/ \E transition \in TransitionArgs, duration \in DurationArgs :
          Transition("p1", transition, duration, "undefined", "undefined")

SpecTransition == Init /\ [][NextTransition]_vars

\* eased runs of ten frames and of MaxFrames frames on p1
EaseArgs == { << <<"x", 100>> >>, << <<"x", 10>> >>, << <<"alpha", 0>> >> }

NextEase ==
    \/ Add("p1")
    \/ Frame(NoFault)
    \/ \E properties \in EaseArgs, frames \in {10, MaxFrames} :
          Animate("p1", properties, frames, "undefined", "undefined")

SpecEase == Init /\ [][NextEase]_vars

(* ------------------------------- claims ------------------------------- *)

\* s without its first entry equal to e
RemoveFirst(s, e) ==
    IF e \notin Range(s) THEN s
    ELSE LET k == CHOOSE i \in 1..Len(s) : s[i] = e /\ \A j \in 1..(i - 1) : s[j] # e
         IN  SubSeq(s, 1, k - 1) \o SubSeq(s, k + 1, Len(s))

\* C1: remove(p) leaves the registry unchanged and raises nothing when p is
\* not registered; when p is registered it deletes exactly the first entry
\* equal to p and keeps the other entries in order.
C1_RemoveAbsentNoOp ==
    last.op = "remove" =>
        /\ ~threw
        /\ registry = RemoveFirst(last.reg, last.arg)

\* C2: whatever start() and stop() calls are made, at most one tick is
\* waiting for the next display refresh.
C2_AtMostOnePendingTick == pending <= 1

\* task i is queued and no task queued behind it writes the same property
LastWriter(i) ==
    LET buf == abuf[made[i].p]
    IN  \E k \in 1..Len(buf) :
          /\ buf[k].id = i
          /\ \A j \in (k + 1)..Len(buf) : buf[j].property # made[i].property

\* the frame count task i was given, a whole number for every animate() input
Frames(i) == made[i].frames[1] \div made[i].frames[2]

\* the value of the property task i animates
ValueOf(i) == props[made[i].p][made[i].property]

\* C3: after animate({p: target}, N, callback) and exactly N update() calls
\* on the primitive, p equals target and the callback has been invoked
\* exactly once.  (Read in the claim's favour: no call was cut short by an
\* exception and no later task writes p.)
C3_CallbackAfterNUpdates ==
    \A i \in DOMAIN made :
        (/\ made[i].callback # "undefined"
         /\ made[i].clean
         /\ made[i].calls = Frames(i)
         /\ LastWriter(i))
        => (ValueOf(i) = made[i].target /\ fired[i] = 1)

\* C4: a callback shared by several tasks is invoked once for each of them,
\* when that task completes.
C4_CallbackOncePerTask ==
    \A i \in DOMAIN made :
        (made[i].callback # "undefined" /\ made[i].clean /\ made[i].done)
        => fired[i] = 1

\* the arguments of the animate call that was the last operation
AnimateProperties == last.args[1]
AnimateEasing == IF IsString(last.args[3]) THEN last.args[3] ELSE last.args[4]
ValidProperties ==
    SelectSeq(AnimateProperties, LAMBDA e : HasProp(last.arg, e[1]) /\ e[1] \in NumericProps)
Enqueued == SubSeq(made, last.n0 + 1, Len(made))

\* C7: with DEBUG set, animate enqueues one task for every valid property
\* and none for an offending one, wherever the offending one stands.
C7_PartialSuccess ==
    (last.op = "animate" /\ (AnimateEasing = "undefined" \/ AnimateEasing \in EasingNames))
    => /\ Len(Enqueued) = Len(ValidProperties)
       /\ \A k \in 1..Len(Enqueued) : Enqueued[k].property = ValidProperties[k][1]

\* C8: with DEBUG set, animate with an easing name that is not in the table
\* raises nothing and enqueues one easeInQuad task per valid property.
C8_UnknownEasingDefaults ==
    (/\ last.op = "animate"
     /\ AnimateEasing # "undefined" /\ AnimateEasing \notin EasingNames
     /\ ValidProperties = AnimateProperties)
    => /\ ~threw
       /\ Len(Enqueued) = Len(AnimateProperties)
       /\ \A k \in 1..Len(Enqueued) : Enqueued[k].easing = "easeInQuad"

HandlerNames == {"mouseover", "mousemove", "mouseout", "click"}

\* the primitives whose handler h the last operation invoked, and how often
Sent(h) == {log[k][2] : k \in {n \in 1..Len(log) : log[n][1] = h}}
Times(h, p) == Cardinality({k \in 1..Len(log) : log[k] = <<h, p>>})

\* the last operation was a tick run by the engine while running
WasTick == last.op = "frame" /\ last.running

\* C5: objectsUnder never raises and never returns a primitive whose kind
\* has no isInside, whatever the registry holds; on an empty registry it
\* returns the empty sequence.
C5_ObjectsUnderNeverRaises ==
    /\ ~query.raised
    /\ \A p \in Range(query.result) : HasIsInside(p)
    /\ (query.asked /\ registry = <<>>) => query.result = <<>>

\* C6: a primitive whose mouseEnabled is false is never in the result of a
\* dispatcher query, never in the hover buffer and never receives an event.
C6_MouseDisabledNeverDispatched ==
    \A p \in Prims :
        ~MouseEnabled(p) =>
            /\ p \notin Range(query.result)
            /\ p \notin Range(mbuf)
            /\ \A h \in HandlerNames : p \notin Sent(h)

\* C9: on a tick with the pointer moved, over goes exactly to the hit
\* primitives not in the hover buffer, move to the hit ones in it, out to
\* the buffered ones no longer hit, each once; afterwards the buffer is the
\* hit set and last-checked is the pointer position.
C9_HoverDiff ==
    (WasTick /\ last.moved) =>
        LET cur == Range(ObjectsUnder(registry, props, mouseX, mouseY))
            prev == Range(last.mbuf)
        IN  /\ Sent("mouseover") = {p \in cur \ prev : "mouseover" \in EventsOf(p)}
            /\ Sent("mousemove") = {p \in cur \cap prev : "mousemove" \in EventsOf(p)}
            /\ Sent("mouseout") = {p \in prev \ cur : "mouseout" \in EventsOf(p)}
            /\ \A p \in Prims, h \in HandlerNames : Times(h, p) <= 1
            /\ Range(mbuf) = cur
            /\ lastX = mouseX /\ lastY = mouseY

\* C10: when a primitive's update, render or handler throws during a tick,
\* every registered primitive is still updated and rendered in that tick and
\* every hit primitive still gets its hover event.
C10_TraversalNotHalted ==
    (WasTick /\ threw /\ ~query.raised) =>
        /\ \A p \in Range(registry) : Times("update", p) >= 1 /\ Times("render", p) >= 1
        /\ \A p \in Range(query.result) :
              EventsOf(p) # {} => (p \in Sent("mouseover") \/ p \in Sent("mousemove"))

\* the last operation ran the tick body: a scheduled tick while running, or
\* the tick start() runs itself
RanTick == WasTick \/ last.op = "start"

\* C11: when a handler, an update (a completion callback) or a render throws
\* in a tick, the engine is still running afterwards and a tick is still
\* scheduled.
C11_ExceptionKeepsLoop ==
    (RanTick /\ threw) => (running /\ pending >= 1)

\* a scheduled tick in which the completion callback of the point's task
\* threw inside update(), and the engine runs on with a tick scheduled
C11_Witness ==
    /\ WasTick /\ threw /\ running /\ pending = 1
    /\ Len(log) > 0 /\ log[Len(log)] = <<"callback", "p1">>

\* the frame counts of the tasks in a buffer
FramesOf(buf) == [k \in 1..Len(buf) |-> <<buf[k].id, buf[k].frame>>]

\* C12: a scheduled tick that runs while the engine is stopped does no
\* dispatcher work, no update and no render and schedules nothing; and no
\* step taken while the engine is and stays stopped changes an animated
\* property or the frame count of a queued task.
C12_StoppedTickIdle ==
    [][ /\ (last'.op = "frame" /\ ~running) =>
              /\ log' = <<>> /\ ~query'.asked
              /\ pending' = pending - 1
              /\ mbuf' = mbuf /\ lastX' = lastX /\ lastY' = lastY
        /\ (~running /\ ~running') =>
              /\ props' = props
              /\ \A p \in Prims :
                    SubSeq(FramesOf(abuf'[p]), 1, Len(abuf[p])) = FramesOf(abuf[p])
      ]_vars

\* a scheduled tick has run while the engine was stopped with a task queued
\* and the pointer moved
C12_Witness ==
    /\ last.op = "frame" /\ ~last.running /\ last.moved
    /\ pending = 0
    /\ \E k \in 1..Len(abuf["p1"]) : RLess(R(0), abuf["p1"][k].frame)

\* the primitives the last operation updated / rendered, in order
Visited(h) == SelectSeq(log, LAMBDA e : e[1] = h)
ReverseOf(reg) == [k \in 1..Len(reg) |-> reg[Len(reg) + 1 - k]]
Marked(h, reg) == [k \in 1..Len(reg) |-> <<h, reg[k]>>]

\* C13: a tick that finds the pointer where the last check left it makes no
\* objectsUnder query, sends no over/move/out event and leaves the hover
\* buffer and the last-checked coordinates alone; it still updates every
\* registered primitive and renders them (all of them unless a render throws).
C13_UnmovedPointerNoDispatch ==
    (WasTick /\ ~last.moved) =>
        /\ ~query.asked
        /\ \A h \in HandlerNames : Sent(h) = {}
        /\ mbuf = last.mbuf
        /\ lastX = mouseX /\ lastY = mouseY
        /\ Visited("update") = Marked("update", ReverseOf(registry))
        /\ registry # <<>> => Visited("render") # <<>>
        /\ ~threw => Visited("render") = Marked("render", ReverseOf(registry))

\* an unmoved tick over a hovered point with two primitives registered
C13_Witness ==
    /\ WasTick /\ ~last.moved /\ ~threw
    /\ mbuf # <<>> /\ Len(registry) >= 2
    /\ Len(Visited("render")) >= 2

\* the step of the tick an invocation belongs to
Phase(e) ==
    IF e[1] \in HandlerNames THEN 1
    ELSE IF e[1] \in {"update", "callback"} THEN 2
    ELSE 3

\* C17: in a tick the dispatcher's handlers come first, then the updates,
\* then the renders; a primitive is rendered only when every registered
\* primitive has been updated in that tick; a tick in which nothing throws
\* queries exactly when the pointer moved and updates and renders all.
C17_DispatchUpdateRender ==
    WasTick =>
        /\ \A i \in 1..Len(log), j \in 1..Len(log) :
              i < j => Phase(log[i]) <= Phase(log[j])
        /\ Visited("render") # <<>> =>
              Visited("update") = Marked("update", ReverseOf(registry))
        /\ query.asked = last.moved
        /\ ~threw =>
              /\ Visited("update") = Marked("update", ReverseOf(registry))
              /\ Visited("render") = Marked("render", ReverseOf(registry))

\* a tick that sent a hover event, then updated and rendered two points
C17_Witness ==
    /\ WasTick /\ last.moved /\ ~threw
    /\ \E h \in HandlerNames : Sent(h) # {}
    /\ Len(Visited("update")) >= 2 /\ Len(Visited("render")) >= 2

\* r lists, in the order of reg, exactly the entries of reg whose isInside
\* holds at (x, y) taken relative to the entry's own position
IsHitList(r, reg, pr, x, y) ==
    LET hits == {i \in 1..Len(reg) :
                   IsInside(reg[i], RSub(R(x), pr[reg[i]].x), RSub(R(y), pr[reg[i]].y))}
    IN  /\ Len(r) = Cardinality(hits)
        /\ \E f \in [1..Len(r) -> hits] :
              /\ \A a \in 1..Len(r), b \in 1..Len(r) : a < b => f[a] < f[b]
              /\ \A a \in 1..Len(r) : r[a] = reg[f[a]]

\* C14: on a registry whose primitives all have isInside, objectsUnder(x, y)
\* raises nothing, returns the hit primitives in registry order and changes
\* neither the registry nor any primitive; the result being determined by
\* the registry, the positions and the point, a second call returns the same.
C14_ObjectsUnderExact ==
    [][ (last'.op = "query" /\ \A i \in 1..Len(registry) : HasIsInside(registry[i])) =>
          /\ query'.asked /\ ~query'.raised /\ ~threw'
          /\ IsHitList(query'.result, registry, props, last'.args[1], last'.args[2])
          /\ IsHitList(query'.result, registry', props', last'.args[1], last'.args[2])
          /\ registry' = registry /\ props' = props /\ abuf' = abuf
          /\ mo' = mo /\ mbuf' = mbuf
      ]_vars

\* a query at (6, 0) over [p1, p2, m] returned p2 alone; one at (0, 0) over
\* the same registry returns all three
C14_Witness ==
    /\ last.op = "query" /\ ~threw
    /\ last.args = <<6, 0>>
    /\ registry = <<"p1", "p2", "m">>
    /\ query.result = <<"p2">>

\* the occurrences of e in s
Count(s, e) == Cardinality({i \in 1..Len(s) : s[i] = e})

\* C16: remove(p) right after add(p) of a p that was not registered gives
\* back the registry as it was before the add; and a query never returns a
\* primitive that is not registered.
C16_AddRemoveRestores ==
    [][ /\ (/\ last.op = "add" /\ last.arg \notin Range(last.reg)
            /\ last'.op = "remove" /\ last'.arg = last.arg)
           => registry' = last.reg
        /\ \A p \in Range(query'.result) : p \in Range(registry')
      ]_vars

\* a remove has deleted the sole entry for its primitive, which stood last
\* behind two others, as after an add
C16_Witness ==
    /\ last.op = "remove"
    /\ Len(last.reg) = 3
    /\ last.reg[3] = last.arg /\ Count(last.reg, last.arg) = 1
    /\ registry = SubSeq(last.reg, 1, 2)

\* the registered primitives under (x, y) that have a click handler
ClickTargets(reg, pr, x, y) ==
    SelectSeq(reg, LAMBDA q :
        /\ HasIsInside(q) /\ "click" \in EventsOf(q)
        /\ IsInside(q, RSub(R(x), pr[q].x), RSub(R(y), pr[q].y)))

\* C15: a click at (cx, cy) invokes the click handler of every registered
\* primitive under the point, in registry order, whatever the pointer and
\* the ticks have done, and leaves the hover buffer and the throttle alone.
C15_ClickAllInOrder ==
    last.op = "click" =>
        /\ log = Marked("click", ClickTargets(registry, props, last.args[1], last.args[2]))
        /\ mbuf = last.mbuf
        /\ last.moved = (mouseX # lastX \/ mouseY # lastY)

\* task i is in its primitive's animation buffer
InQueue(i) == \E k \in 1..Len(abuf[made[i].p]) : abuf[made[i].p][k].id = i

\* C20: a task that animate() enqueued is in the buffer until an update()
\* drops it with its frame count at zero, whoever called animate().
C20_TaskStaysQueued ==
    \A i \in DOMAIN made : InQueue(i) \/ made[i].done

\* the values the layers hold for key k, highest precedence first: style,
\* what init wrote, data, and the default the constructor starts from
DefaultOf(k, kindEvents) ==
    LET events == IF kindEvents.t = "none" THEN Ob(Absent, Absent) ELSE kindEvents
    IN  CASE k = "alpha" -> Sc("1")
          [] k = "mouseEnabled" ->
                Sc(IF events.a = Absent /\ events.b = Absent THEN "false" ELSE "true")
          [] k = "x" -> None
          [] k = "events" -> events

LayersOf(k) ==
    << last.args[2][k],
       IF built.obj.init = k THEN Sc("i") ELSE None,
       last.args[1][k],
       DefaultOf(k, last.args[3]) >>

\* the first value of sub-key c in a sequence of objects
FirstSub(objs, c) ==
    IF \E j \in 1..Len(objs) : objs[j][c] # Absent
    THEN objs[CHOOSE j \in 1..Len(objs) :
                  objs[j][c] # Absent /\ \A i \in 1..(j - 1) : objs[i][c] = Absent][c]
    ELSE Absent

\* the value the precedence gives key k: that of the highest layer holding
\* k; when that is an object, each of its sub-keys comes from the highest
\* of the objects stacked directly below it that holds the sub-key
Resolved(k) ==
    LET held == SelectSeq(LayersOf(k), LAMBDA v : v.t # "none")
        n == IF \E j \in 1..Len(held) : held[j].t = "s"
             THEN CHOOSE j \in 1..Len(held) :
                      held[j].t = "s" /\ \A i \in 1..(j - 1) : held[i].t # "s"
             ELSE Len(held) + 1
        objs == SubSeq(held, 1, n - 1)
    IN  IF held = <<>> THEN None
        ELSE IF held[1].t = "s" THEN held[1]
        ELSE Ob(FirstSub(objs, "a"), FirstSub(objs, "b"))

C19_DefinitionErrorAtDefinition ==
    /\ last.op = "define" =>
          LET obj == last.args[1]
          IN  /\ threw <=> (~obj.render \/ (obj.events.t # "none" /\ ~obj.isInside))
              /\ built.defined <=> ~threw
              /\ (built.error = "definition") <=> threw
    /\ built.error = "definition" => last.op = "define"
    /\ built.inst.made => built.defined

\* a definition with render and an empty events object but no isInside has
\* been refused
C19_Witness ==
    /\ last.op = "define" /\ threw /\ ~built.defined
    /\ last.args[1].render /\ last.args[1].events = Ob(Absent, Absent)
    /\ ~last.args[1].isInside

\* the remaining frame count of queued task i
Remaining(i) ==
    LET buf == abuf[made[i].p]
    IN  buf[CHOOSE k \in 1..Len(buf) : buf[k].id = i].frame

\* C22: a task of N frames is queued during exactly N + 1 update() calls:
\* each of the first N decrements its count, the (N + 1)th fires the
\* callback, if the task has one, and drops the task.
C22_QueuedForNPlusOneUpdates ==
    \A i \in DOMAIN made :
        made[i].clean =>
            /\ made[i].calls <= Frames(i) =>
                  /\ InQueue(i) /\ ~made[i].done /\ fired[i] = 0
                  /\ Remaining(i) = R(Frames(i) - made[i].calls)
            /\ made[i].calls = Frames(i) + 1 =>
                  /\ ~InQueue(i) /\ made[i].done
                  /\ fired[i] = (IF made[i].callback = "undefined" THEN 0 ELSE 1)

\* C21: the remaining frame count of every queued task, made by animate()
\* or by transition() with any duration, lies between zero and the task's
\* total frame count.
C21_FrameCountWithinTotal ==
    \A p \in Prims : \A k \in 1..Len(abuf[p]) :
        /\ ~RLess(abuf[p][k].frame, R(0))
        /\ ~RLess(abuf[p][k].length, abuf[p][k].frame)

\* the queue entry of queued task i
Entry(i) ==
    LET buf == abuf[made[i].p]
    IN  buf[CHOOSE k \in 1..Len(buf) : buf[k].id = i]

\* task i is queued and is the only queued task on its property
SoleTask(i) ==
    LET buf == abuf[made[i].p]
    IN  /\ InQueue(i)
        /\ \A k \in 1..Len(buf) : buf[k].id # i => buf[k].property # made[i].property

\* C26: after k update() calls, 1 <= k <= N, on a task of N frames made by
\* animate({p: target}, N) with the default easing, and no other task on
\* p, p = initial + (target - initial) * (k/N)^2.
C26_EaseInQuadValue ==
    \A i \in DOMAIN made :
        LET k == made[i].calls
            N == Frames(i)
        IN  (/\ made[i].easing = "easeInQuad" /\ made[i].clean
             /\ SoleTask(i)
             /\ 1 <= k /\ k <= N)
            => ValueOf(i) = RAdd(Entry(i).initialValue,
                                 RMul(RSub(made[i].target, Entry(i).initialValue),
                                      Norm(k * k, N * N)))

\* animate({x: 100}, 10) from x = 0 has run for five updates and x is 25
C26_Witness ==
    \E i \in DOMAIN made :
        /\ made[i].property = "x" /\ made[i].target = R(100) /\ made[i].frames = R(10)
        /\ SoleTask(i) /\ Entry(i).initialValue = R(0)
        /\ made[i].calls = 5
        /\ props["p1"].x = R(25)

\* C27: transition('fadeinright') moves x back by 40 and
\* transition('fadeinleft') moves it forward by 40; each queues one task for
\* alpha towards 1 and one for x towards its value before the call, of 60
\* frames when no duration is given and of d * 60 frames for a duration d;
\* after 60 updates of the 60-frame tasks x and alpha have their targets.
C27_SlideTransition ==
    [][/\ (last'.op = "transition" /\ last'.args[1] \in {"fadeinright", "fadeinleft"}) =>
            LET p == last'.arg
                d == last'.args[2]
                n == Len(made)
                total == IF d.given THEN RMul(d.v, R(60)) ELSE R(60)
            IN  /\ props'[p].x = (IF last'.args[1] = "fadeinright"
                                  THEN RSub(props[p].x, R(40))
                                  ELSE RAdd(props[p].x, R(40)))
                /\ Len(made') = n + 2
                /\ made'[n + 1].property = "alpha" /\ made'[n + 1].target = R(1)
                /\ made'[n + 2].property = "x" /\ made'[n + 2].target = props[p].x
                /\ made'[n + 1].frames = total /\ made'[n + 2].frames = total
       /\ \A i \in DOMAIN made :
            (made[i].frames = R(60) /\ made[i].calls = 60 /\ made[i].clean /\ LastWriter(i))
                => ValueOf(i) = made[i].target
      ]_vars

\* s is an initial segment of t
IsPrefix(s, t) == Len(s) <= Len(t) /\ SubSeq(t, 1, Len(s)) = s

\* C23 as stated: after every tick the hover buffer holds exactly the
\* primitives objectsUnder returns for the current pointer position, registry
\* and positions, also when primitives moved, came or went while the pointer
\* stayed still.
C23_HoverBufferIsCurrentHits ==
    (WasTick /\ ~threw /\ ~ObjectsUnderThrows(registry)) =>
        Range(mbuf) = Range(ObjectsUnder(registry, props, mouseX, mouseY))

\* C23, amended: a tick whose pointer coordinates equal the last checked
\* ones leaves the hover buffer as it was; a tick whose coordinates differ
\* and whose dispatch completes leaves in it exactly the primitives
\* objectsUnder returns for the pointer, the registry and the positions at
\* the start of the tick; when objectsUnder raises the buffer is untouched,
\* and when a handler raises it keeps its entries and gains only primitives
\* of that result.
C23_HoverBufferPerMovedTick ==
    [][(last'.op = "frame" /\ running) =>
          LET moved == mouseX # lastX \/ mouseY # lastY
              current == ObjectsUnder(registry, props, mouseX, mouseY)
          IN  /\ ~moved => mbuf' = mbuf
              /\ (moved /\ ObjectsUnderThrows(registry)) => mbuf' = mbuf
              /\ (moved /\ ~ObjectsUnderThrows(registry)) =>
                    IF lastX' = mouseX /\ lastY' = mouseY
                    THEN Range(mbuf') = Range(current)
                    ELSE /\ threw'
                         /\ IsPrefix(mbuf, mbuf')
                         /\ Range(mbuf') \subseteq Range(mbuf) \cup Range(current)
      ]_vars

\* a tick with the pointer still has left out of the buffer a primitive that
\* is under the pointer, or kept one that no longer is
C23_Witness ==
    /\ WasTick /\ ~last.moved /\ ~threw /\ ~ObjectsUnderThrows(registry)
    /\ mbuf = last.mbuf
    /\ Range(mbuf) # Range(ObjectsUnder(registry, props, mouseX, mouseY))

\* C25: a pointer move only overwrites the latest coordinates: it runs no
\* query and delivers no event; a tick runs one query, and only when those
\* coordinates differ from the last checked ones, for the coordinates of the
\* last move received; it delivers over and move only to primitives under
\* that position and out only to buffered primitives that are not.
C25_LatestMoveOnly ==
    [][/\ last'.op = "mousemove" =>
            /\ mouseX' = last'.args[1] /\ mouseY' = last'.args[2]
            /\ ~query'.asked /\ log' = <<>>
            /\ UNCHANGED <<lastX, lastY, mbuf, mo>>
       /\ (last'.op = "frame" /\ running) =>
            LET moved == mouseX # lastX \/ mouseY # lastY
                current == ObjectsUnder(registry, props, mouseX, mouseY)
            IN  /\ query'.asked = moved
                /\ query'.asked =>
                      IF ObjectsUnderThrows(registry)
                      THEN query'.raised /\ \A h \in HandlerNames : Sent(h)' = {}
                      ELSE /\ ~query'.raised /\ query'.result = current
                           /\ Sent("mouseover")' \cup Sent("mousemove")' \subseteq Range(current)
                           /\ Sent("mouseout")' \subseteq Range(mbuf) \ Range(current)
      ]_vars

\* the pointer had left the last checked position and a further move has
\* brought it back before any tick ran: the position in between is never seen
C25_Witness ==
    /\ last.op = "mousemove" /\ last.moved
    /\ mouseX = lastX /\ mouseY = lastY
    /\ mouseX # InitialMouse

\* the hover events of an operation's log that went to primitive p, in order
HoverEvents(lg, p) ==
    SelectSeq(lg, LAMBDA e : e[2] = p /\ e[1] \in {"mouseover", "mousemove", "mouseout"})

\* event b may follow event a at one primitive in the Idle/Hovered machine:
\* Idle takes over only, Hovered takes move and out only
MayFollow(a, b) ==
    IF a = "mouseout" THEN b = "mouseover" ELSE b \in {"mousemove", "mouseout"}

\* C24: the hover events a primitive receives follow the Idle/Hovered
\* machine: within one tick and from one operation to the next, over is
\* never followed by over, and move and out follow only over or move.
C24_HoverEventsAlternate ==
    [][\A p \in Prims :
          LET before == HoverEvents(log, p)
              now == HoverEvents(log', p)
          IN  /\ \A k \in 1..(Len(now) - 1) : MayFollow(now[k][1], now[k + 1][1])
              /\ (before # <<>> /\ now # <<>>) =>
                    MayFollow(before[Len(before)][1], now[1][1])
      ]_vars

====
